---- MODULE Spec2Model ----
(***************************************************************************)
(* Emergency consultation app: the consultations/doctors/profiles tables   *)
(* with their row-level-security policies (src/unnamed/part_000) and the   *)
(* client handlers that write to them (src/app/(tabs)/consultations.tsx,   *)
(* index.tsx, profile.tsx).                                                *)
(*                                                                         *)
(* A handler is modelled in two steps: the step that issues its request    *)
(* (the store applies the statement atomically) and the step that handles  *)
(* the response (the code after the await).  A handler is a function of    *)
(* the session's profile and of its argument, so it is modelled for every  *)
(* consultation id; which buttons the list offers is modelled separately   *)
(* by isPending / isAssigned / isInProgress.                               *)
(*                                                                         *)
(* Five specifications share the state and the actions:                    *)
(*   Spec         a patient and two doctors on the consultations screen;   *)
(*   SpecStore    two patients and a doctor, with the INSERTs and UPDATEs  *)
(*                the policies admit from any authenticated caller;        *)
(*   SpecScreens  a patient and a doctor on the profile screen and the     *)
(*                doctors list, with the two change feeds;                 *)
(*   SpecProfile  the profile form and its save, the doctor on two devices;*)
(*   SpecFetch    the consultations list with each fetch split at its      *)
(*                await, so that answers can arrive in any order.          *)
(***************************************************************************)
EXTENDS Integers, FiniteSets, Sequences, TLC

VARIABLES profiles, doctors, consultations, now, call, alert, list,
          doctorProfile, doctorsList, full_name, fullName, fetches, latest

vars == <<profiles, doctors, consultations, now, call, alert, list,
          doctorProfile, doctorsList, full_name, fullName, fetches, latest>>

(* ------------------------------ bounds -------------------------------- *)
MaxConsultations == 1
MaxClock == 2
MaxInFlight == 2
MaxFetches == 2

(* ------------------------------ values -------------------------------- *)
Users == {"p1", "p2", "d1", "d2"}
NULL == "null"
(* a timestamptz column that is NULL *)
NullTime == 0
(* the accounts and the role each one picks on the sign-up form *)
SignUps == {<<"p1", "patient">>, <<"d1", "doctor">>, <<"d2", "doctor">>}
Statuses == {"pending", "assigned", "in_progress", "completed", "cancelled"}
Ids == 1 .. MaxConsultations
SymptomInputs == {<<>>, <<" ">>, <<"f">>, <<" ", "f">>}
(* the name every account signs up with, and the names typed on the profile screen *)
SignUpName == "a"
Names == {"a", "b"}

(* the emptiness test without trim(): !symptoms *)
NoTrim(s) == s

(* String.prototype.trim on a sequence of characters *)
RECURSIVE TrimLeft(_)
TrimLeft(s) == IF s # <<>> /\ Head(s) = " " THEN TrimLeft(Tail(s)) ELSE s

RECURSIVE TrimRight(_)
TrimRight(s) ==
    IF s # <<>> /\ s[Len(s)] = " " THEN TrimRight(SubSeq(s, 1, Len(s) - 1)) ELSE s

Trim(s) == TrimRight(TrimLeft(s))

(* ------------------------- row-level security ------------------------- *)
(* the policies are never enforced: ENABLE ROW LEVEL SECURITY left out *)
RlsDisabled == FALSE

(* ALTER TABLE consultations ENABLE ROW LEVEL SECURITY *)
RlsEnabled == TRUE

(* the ids of TABLE doctors *)
DoctorIds == {d.id : d \in doctors}

(* the subquery without its WHERE id = auth.uid(): every doctors row *)
AnyDoctorRow(uid) == DoctorIds

(* SELECT id FROM doctors WHERE id = auth.uid() *)
OwnDoctorRow(uid) == {d \in DoctorIds : d = uid}

(* POLICY "Patients can view own consultations" (the only SELECT policy) *)
SelectUsing(uid, row) ==
    \/ row.patient_id = uid
    \/ row.doctor_id \in OwnDoctorRow(uid)

(* the INSERT policy without its EXISTS (... user_type = 'patient') *)
InsertCheckOwn(uid, row) == row.patient_id = uid

(* POLICY "Patients can create consultations" *)
InsertCheck(uid, row) ==
    /\ row.patient_id = uid
    /\ profiles[uid] = "patient"

(* POLICY "Patients can update own consultations" *)
PatientUpdateUsing(uid, row) == row.patient_id = uid
PatientUpdateCheck(uid, row) == row.patient_id = uid

(* POLICY "Doctors can update assigned consultations" *)
DoctorUpdateUsing(uid, row) ==
    \/ row.doctor_id \in OwnDoctorRow(uid)
    \/ (row.doctor_id = NULL /\ OwnDoctorRow(uid) # {})
(* the policy without its WITH CHECK clause: USING is applied to the new row *)
DoctorUpdateCheckOmitted(uid, row) == DoctorUpdateUsing(uid, row)
DoctorUpdateCheck(uid, row) == row.doctor_id \in OwnDoctorRow(uid)

(* POLICY "Doctors can update own profile" *)
DoctorsUpdateUsing(uid, id) == uid = id

(* the doctors SELECT policy written like the profiles one: own row only *)
DoctorsSelectOwn(uid, id) == uid = id

(* POLICY "Anyone can view doctor profiles" *)
DoctorsSelectUsing(uid, id) == TRUE

(* POLICY "Users can view own profile" *)
ProfilesSelectUsing(uid, id) == uid = id

(* POLICY "Users can update own profile" *)
ProfilesUpdateUsing(uid, id) == uid = id

(* the doctors INSERT policy without its EXISTS (... user_type = 'doctor') *)
DoctorsInsertCheckOwn(uid, id) == uid = id

(* POLICY "Doctors can insert own profile" *)
DoctorsInsertCheck(uid, id) ==
    /\ uid = id
    /\ profiles[uid] = "doctor"

(* column constraints of TABLE consultations: status CHECK, the two foreign keys *)
ConstraintsHold(row) ==
    /\ row.status \in Statuses
    /\ profiles[row.patient_id] # NULL
    /\ row.doctor_id \in DoctorIds \cup {NULL}

(* the payload's columns replace the row's, the others are kept *)
ApplyPayload(row, payload) ==
    [f \in DOMAIN row |-> IF f \in DOMAIN payload THEN payload[f] ELSE row[f]]

(* UPDATE consultations SET payload WHERE id = id, issued by uid.           *)
(* The WHERE clause reads a column, so the SELECT policy is applied next to *)
(* the UPDATE policies: a row that fails USING is skipped without an error, *)
(* a new row that fails WITH CHECK (or a constraint) raises an error.       *)
UpdateConsultations(uid, id, payload) ==
    IF id \notin DOMAIN consultations
    THEN [rows |-> consultations, error |-> FALSE]
    ELSE LET row == consultations[id]
             new == ApplyPayload(row, payload)
             targeted == RlsEnabled =>
                 /\ SelectUsing(uid, row)
                 /\ (PatientUpdateUsing(uid, row) \/ DoctorUpdateUsing(uid, row))
             checked == RlsEnabled =>
                 /\ (PatientUpdateCheck(uid, new) \/ DoctorUpdateCheck(uid, new))
                 /\ SelectUsing(uid, new)
         IN  IF ~targeted
             THEN [rows |-> consultations, error |-> FALSE]
             ELSE IF ~(ConstraintsHold(new) /\ checked)
                  THEN [rows |-> consultations, error |-> TRUE]
                  ELSE [rows |-> [consultations EXCEPT ![id] = new], error |-> FALSE]

(* the column defaults of TABLE consultations *)
Defaults ==
    [doctor_id |-> NULL, status |-> "pending",
     started_at |-> NullTime, completed_at |-> NullTime]

(* INSERT INTO consultations, issued by uid: the columns `values` leaves out *)
(* take their defaults; the row must satisfy the constraints and the INSERT  *)
(* policy                                                                    *)
InsertConsultation(uid, values) ==
    LET row == [f \in DOMAIN values \cup DOMAIN Defaults |->
                   IF f \in DOMAIN values THEN values[f] ELSE Defaults[f]]
    IN  IF ConstraintsHold(row) /\ (RlsEnabled => InsertCheck(uid, row))
        THEN [rows |-> Append(consultations, row), error |-> FALSE]
        ELSE [rows |-> consultations, error |-> TRUE]

(* ------------------------------ client -------------------------------- *)
(* useAuth().profile of u's session *)
isDoctor(u) == profiles[u] = "doctor"
isPatient(u) == profiles[u] = "patient"

(* no request outstanding; `unclaimed` and `before` record, for a request   *)
(* under way, what the store held when it was issued                        *)
Idle ==
    [op |-> "none", id |-> 0, phase |-> "idle", error |-> FALSE, unclaimed |-> FALSE,
     before |-> NULL]

InFlight == {u \in Users : call[u].phase # "idle"}

(* a signed-in session with no request outstanding may issue one *)
CanIssue(u) ==
    /\ profiles[u] # NULL
    /\ call[u].phase = "idle"
    /\ Cardinality(InFlight) < MaxInFlight

(* the rows fetchConsultations receives: its filter, restricted by the SELECT policy *)
QueryConsultations(u) ==
    {c \in DOMAIN consultations :
        /\ RlsEnabled => SelectUsing(u, consultations[c])
        /\ IF isDoctor(u)
           THEN consultations[c].doctor_id = u \/ consultations[c].status = "pending"
           ELSE consultations[c].patient_id = u}

(* the items setConsultations stores: the columns renderConsultation reads *)
Fetched(u) ==
    {[id |-> c, status |-> consultations[c].status,
      doctor_id |-> consultations[c].doctor_id] : c \in QueryConsultations(u)}

(* renderConsultation: which button a displayed row offers *)
(* an Accept button that does not look at the viewer's role *)
isPendingAnyRole(u, item) == item.status = "pending" /\ item.doctor_id = NULL
isPending(u, item) == item.status = "pending" /\ isDoctor(u) /\ item.doctor_id = NULL
isAssigned(u, item) == item.status = "assigned" /\ isDoctor(u) /\ item.doctor_id = u
isInProgress(u, item) == item.status = "in_progress" /\ isDoctor(u) /\ item.doctor_id = u

(* renderConsultation: the buttons rendered under a displayed row *)
Buttons(u, item) ==
    (IF isPending(u, item) THEN {"Accept Consultation"} ELSE {})
        \cup (IF isAssigned(u, item) THEN {"Start Consultation"} ELSE {})
        \cup (IF isInProgress(u, item) THEN {"Complete Consultation"} ELSE {})

Init ==
    /\ profiles = [u \in Users |-> NULL]
    /\ doctors = {}
    /\ consultations = <<>>
    /\ now = 0
    /\ call = [u \in Users |-> Idle]
    /\ alert = [u \in Users |-> "none"]
    /\ list = [u \in Users |-> {}]
    /\ doctorProfile = [u \in Users |-> FALSE]
    /\ doctorsList = [u \in Users |-> {}]
    /\ full_name = [u \in Users |-> NULL]
    /\ fullName = [u \in Users |-> NULL]
    /\ fetches = [u \in Users |-> {}]
    /\ latest = [u \in Users |-> {}]

(* signUp(email, password, fullName, userType): creates the caller's profile *)
signUp(u, userType) ==
    /\ profiles[u] = NULL
    /\ profiles' = [profiles EXCEPT ![u] = userType]
    /\ full_name' = [full_name EXCEPT ![u] = SignUpName]
    /\ fullName' = [fullName EXCEPT ![u] = SignUpName]
    /\ UNCHANGED <<doctors, consultations, now, call, alert, list, doctorProfile, doctorsList,
                   fetches, latest>>

fetchConsultations(u) ==
    /\ profiles[u] # NULL
    /\ list' = [list EXCEPT ![u] = Fetched(u)]
    /\ UNCHANGED <<profiles, doctors, consultations, now, call, alert, doctorProfile, doctorsList,
                   full_name, fullName, fetches, latest>>

(* fetchConsultations up to its await: the query is issued (on mount, by    *)
(* pull-to-refresh or by a change event) and the store answers it from the  *)
(* rows it holds now; `latest` remembers the answer to the session's most   *)
(* recent query                                                             *)
fetchConsultationsQuery(u) ==
    /\ profiles[u] # NULL
    /\ Cardinality(fetches[u]) < MaxFetches
    /\ fetches' = [fetches EXCEPT ![u] = @ \cup {Fetched(u)}]
    /\ latest' = [latest EXCEPT ![u] = Fetched(u)]
    /\ UNCHANGED <<profiles, doctors, consultations, now, call, alert, list, doctorProfile,
                   doctorsList, full_name, fullName>>

(* fetchConsultations after its await: an answer arrives, whichever of the  *)
(* outstanding ones, and setConsultations(data) displays it                 *)
setConsultations(u, data) ==
    /\ data \in fetches[u]
    /\ list' = [list EXCEPT ![u] = data]
    /\ fetches' = [fetches EXCEPT ![u] = @ \ {data}]
    /\ UNCHANGED <<profiles, doctors, consultations, now, call, alert, doctorProfile,
                   doctorsList, full_name, fullName, latest>>

(* the three buttons are rendered for a doctor's session only *)
handleAcceptConsultation(u, c) ==
    /\ CanIssue(u) /\ isDoctor(u)
    /\ LET res == UpdateConsultations(u, c, [doctor_id |-> u, status |-> "assigned"])
       IN  /\ consultations' = res.rows
           /\ call' = [call EXCEPT ![u] =
                  [Idle EXCEPT !.op = "accept", !.id = c, !.phase = "waiting",
                               !.error = res.error,
                               !.unclaimed = /\ c \in DOMAIN consultations
                                             /\ consultations[c].status = "pending"
                                             /\ consultations[c].doctor_id = NULL]]
    /\ UNCHANGED <<profiles, doctors, now, alert, list, doctorProfile, doctorsList,
                   full_name, fullName, fetches, latest>>

handleAcceptConsultationDone(u) ==
    /\ call[u].op = "accept" /\ call[u].phase = "waiting"
    /\ call' = [call EXCEPT ![u] = Idle]
    /\ IF call[u].error
       THEN /\ alert' = [alert EXCEPT ![u] = "Error"]
            /\ list' = list
       ELSE /\ alert' = [alert EXCEPT ![u] = "Success"]
            /\ list' = [list EXCEPT ![u] = Fetched(u)]
    /\ UNCHANGED <<profiles, doctors, consultations, now, doctorProfile, doctorsList,
                   full_name, fullName, fetches, latest>>

handleStartConsultation(u, c) ==
    /\ CanIssue(u) /\ isDoctor(u)
    /\ now < MaxClock
    /\ now' = now + 1
    /\ LET res == UpdateConsultations(u, c, [status |-> "in_progress", started_at |-> now'])
       IN  /\ consultations' = res.rows
           /\ call' = [call EXCEPT ![u] =
                  [Idle EXCEPT !.op = "start", !.id = c, !.phase = "waiting",
                               !.error = res.error]]
    /\ UNCHANGED <<profiles, doctors, alert, list, doctorProfile, doctorsList,
                   full_name, fullName, fetches, latest>>

handleStartConsultationDone(u) ==
    /\ call[u].op = "start" /\ call[u].phase = "waiting"
    /\ call' = [call EXCEPT ![u] = Idle]
    /\ IF call[u].error
       THEN /\ alert' = [alert EXCEPT ![u] = "Error"]
            /\ list' = list
       ELSE /\ alert' = alert
            /\ list' = [list EXCEPT ![u] = Fetched(u)]
    /\ UNCHANGED <<profiles, doctors, consultations, now, doctorProfile, doctorsList,
                   full_name, fullName, fetches, latest>>

(* a complete that writes the wrong status *)
handleCompleteConsultationCancels(u, c) ==
    /\ CanIssue(u) /\ isDoctor(u)
    /\ now < MaxClock
    /\ now' = now + 1
    /\ LET res == UpdateConsultations(u, c, [status |-> "cancelled", completed_at |-> now'])
       IN  /\ consultations' = res.rows
           /\ call' = [call EXCEPT ![u] =
                  [Idle EXCEPT !.op = "complete", !.id = c, !.phase = "waiting",
                               !.error = res.error]]
    /\ UNCHANGED <<profiles, doctors, alert, list, doctorProfile, doctorsList,
                   full_name, fullName, fetches, latest>>

handleCompleteConsultation(u, c) ==
    /\ CanIssue(u) /\ isDoctor(u)
    /\ now < MaxClock
    /\ now' = now + 1
    /\ LET res == UpdateConsultations(u, c, [status |-> "completed", completed_at |-> now'])
       IN  /\ consultations' = res.rows
           /\ call' = [call EXCEPT ![u] =
                  [Idle EXCEPT !.op = "complete", !.id = c, !.phase = "waiting",
                               !.error = res.error]]
    /\ UNCHANGED <<profiles, doctors, alert, list, doctorProfile, doctorsList,
                   full_name, fullName, fetches, latest>>

handleCompleteConsultationDone(u) ==
    /\ call[u].op = "complete" /\ call[u].phase = "waiting"
    /\ call' = [call EXCEPT ![u] = Idle]
    /\ IF call[u].error
       THEN /\ alert' = [alert EXCEPT ![u] = "Error"]
            /\ list' = list
       ELSE /\ alert' = [alert EXCEPT ![u] = "Success"]
            /\ list' = [list EXCEPT ![u] = Fetched(u)]
    /\ UNCHANGED <<profiles, doctors, consultations, now, doctorProfile, doctorsList,
                   full_name, fullName, fetches, latest>>

(* handleRequestConsultation with the form holding `symptoms`; the form is *)
(* rendered for a patient's session only                                   *)
handleRequestConsultation(u, symptoms) ==
    /\ CanIssue(u) /\ isPatient(u)
    /\ IF Trim(symptoms) = <<>>
       THEN /\ alert' = [alert EXCEPT ![u] = "Error"]
            /\ UNCHANGED <<consultations, call>>
       ELSE /\ Len(consultations) < MaxConsultations
            /\ LET res == InsertConsultation(u, [patient_id |-> u,
                               symptoms |-> Trim(symptoms), status |-> "pending"])
               IN  /\ consultations' = res.rows
                   /\ call' = [call EXCEPT ![u] =
                          [Idle EXCEPT !.op = "request", !.phase = "waiting",
                                       !.error = res.error]]
            /\ alert' = alert
    /\ UNCHANGED <<profiles, doctors, now, list, doctorProfile, doctorsList,
                   full_name, fullName, fetches, latest>>

handleRequestConsultationDone(u) ==
    /\ call[u].op = "request" /\ call[u].phase = "waiting"
    /\ call' = [call EXCEPT ![u] = Idle]
    /\ alert' = [alert EXCEPT ![u] = IF call[u].error THEN "Error" ELSE "Success"]
    /\ UNCHANGED <<profiles, doctors, consultations, now, list, doctorProfile, doctorsList,
                   full_name, fullName, fetches, latest>>

(* a save whose payload carries user_type as well, with the column's usual value *)
handleUpdateProfileWithRole(u) ==
    /\ CanIssue(u)
    /\ full_name' = [full_name EXCEPT ![u] = fullName[u]]
    /\ profiles' = [profiles EXCEPT ![u] = "patient"]
    /\ call' = [call EXCEPT ![u] = [Idle EXCEPT !.op = "save", !.phase = "profile",
                                                !.before = full_name[u]]]
    /\ UNCHANGED <<doctors, consultations, now, alert, list, doctorProfile, doctorsList,
                   fullName, fetches, latest>>

(* handleUpdateProfile, first request: UPDATE profiles ... WHERE id = profile.id. *)
(* The policy "Users can update own profile" admits the caller's own row; the     *)
(* columns it writes are full_name and phone; the model keeps full_name.          *)
handleUpdateProfile(u) ==
    /\ CanIssue(u)
    /\ full_name' = [v \in Users |->
                        IF v = u /\ ProfilesUpdateUsing(u, v)
                        THEN fullName[u] ELSE full_name[v]]
    /\ call' = [call EXCEPT ![u] = [Idle EXCEPT !.op = "save", !.phase = "profile",
                                                !.before = full_name[u]]]
    /\ UNCHANGED <<profiles, doctors, consultations, now, alert, list, doctorProfile, doctorsList,
                   fullName, fetches, latest>>

(* ProfileScreen: typing in the Full Name field changes the form, nothing else *)
setFullName(u, name) ==
    /\ profiles[u] # NULL
    /\ fullName' = [fullName EXCEPT ![u] = name]
    /\ UNCHANGED <<profiles, doctors, consultations, now, call, alert, list, doctorProfile,
                   doctorsList, full_name, fetches, latest>>

(* after the profiles update: a patient is done, a doctor's client looks its row up *)
handleUpdateProfileSelect(u) ==
    /\ call[u].op = "save" /\ call[u].phase = "profile"
    /\ IF isDoctor(u)
       THEN /\ call' = [call EXCEPT ![u].phase =
                          IF u \in DoctorIds THEN "existing" ELSE "absent"]
            /\ alert' = alert
       ELSE /\ call' = [call EXCEPT ![u] = Idle]
            /\ alert' = [alert EXCEPT ![u] = "Success"]
    /\ UNCHANGED <<profiles, doctors, consultations, now, list, doctorProfile, doctorsList,
                   full_name, fullName, fetches, latest>>

(* existingDoctor ? UPDATE doctors SET doctorProfile WHERE id : INSERT INTO     *)
(* doctors (id, doctorProfile); of doctorProfile the model keeps is_available   *)
handleUpdateProfileWrite(u) ==
    /\ call[u].op = "save" /\ call[u].phase \in {"existing", "absent"}
    /\ IF call[u].phase = "existing"
       THEN /\ doctors' = {IF DoctorsUpdateUsing(u, d.id)
                           THEN [d EXCEPT !.is_available = doctorProfile[u]]
                           ELSE d : d \in {e \in doctors : e.id = u}}
                              \cup {e \in doctors : e.id # u}
            /\ call' = [call EXCEPT ![u].phase = "waiting"]
       ELSE IF u \notin DoctorIds /\ DoctorsInsertCheck(u, u)
            THEN /\ doctors' = doctors \cup
                                  {[id |-> u, is_available |-> doctorProfile[u]]}
                 /\ call' = [call EXCEPT ![u].phase = "waiting"]
            ELSE /\ doctors' = doctors
                 /\ call' = [call EXCEPT ![u].phase = "waiting", ![u].error = TRUE]
    /\ UNCHANGED <<profiles, consultations, now, alert, list, doctorProfile, doctorsList,
                   full_name, fullName, fetches, latest>>

handleUpdateProfileDone(u) ==
    /\ call[u].op = "save" /\ call[u].phase = "waiting"
    /\ call' = [call EXCEPT ![u] = Idle]
    /\ alert' = [alert EXCEPT ![u] = IF call[u].error THEN "Error" ELSE "Success"]
    /\ UNCHANGED <<profiles, doctors, consultations, now, list, doctorProfile, doctorsList,
                   full_name, fullName, fetches, latest>>

(* ProfileScreen: the switch changes the form's doctorProfile, nothing else; *)
(* it is rendered for a doctor's session                                     *)
handleToggleAvailability(u, value) ==
    /\ isDoctor(u)
    /\ doctorProfile' = [doctorProfile EXCEPT ![u] = value]
    /\ UNCHANGED <<profiles, doctors, consultations, now, call, alert, list, doctorsList,
                   full_name, fullName, fetches, latest>>

(* ProfileScreen on mount: the form takes the caller's doctors row, if any *)
fetchDoctorProfile(u) ==
    /\ isDoctor(u)
    /\ doctorProfile' =
          [doctorProfile EXCEPT ![u] =
              IF \E d \in doctors : d.id = u /\ DoctorsSelectUsing(u, d.id)
              THEN (CHOOSE d \in doctors : d.id = u).is_available
              ELSE doctorProfile[u]]
    /\ UNCHANGED <<profiles, doctors, consultations, now, call, alert, list, doctorsList,
                   full_name, fullName, fetches, latest>>

(* select('*, profiles(full_name)') on doctors: the rows the SELECT policy  *)
(* admits, each with its profile where the profiles policy lets it be read  *)
FetchedDoctors(u) ==
    {[id |-> d.id, is_available |-> d.is_available,
      profiles |-> IF ProfilesSelectUsing(u, d.id) THEN "full_name" ELSE NULL] :
          d \in {e \in doctors : DoctorsSelectUsing(u, e.id)}}

fetchDoctors(u) ==
    /\ profiles[u] # NULL
    /\ doctorsList' = [doctorsList EXCEPT ![u] = FetchedDoctors(u)]
    /\ UNCHANGED <<profiles, doctors, consultations, now, call, alert, list, doctorProfile,
                   full_name, fullName, fetches, latest>>

(* the row images a change event may carry; an event can be late, so the    *)
(* image need not be the row as it is now                                   *)
ConsultationEvents ==
    {[id |-> c, status |-> st, doctor_id |-> NULL] :
        c \in Ids, st \in {"pending", "cancelled"}}
DoctorEvents ==
    {[id |-> "d1", is_available |-> b, profiles |-> NULL] : b \in BOOLEAN}

(* a callback that shows the event's row instead of fetching *)
onConsultationsChangesMerge(u, payload) ==
    /\ profiles[u] # NULL
    /\ list' = [list EXCEPT ![u] = list[u] \cup {payload}]
    /\ UNCHANGED <<profiles, doctors, consultations, now, call, alert,
                   doctorProfile, doctorsList,
                   full_name, fullName, fetches, latest>>

(* channel 'consultations_changes': the callback drops the payload and fetches *)
onConsultationsChanges(u, payload) == fetchConsultations(u)

(* channel 'doctors_changes': the callback drops the payload and fetches *)
onDoctorsChanges(u, payload) == fetchDoctors(u)

(* the payloads tried for a caller's own UPDATE (Database.consultations.Update): *)
(* name a doctor, name a doctor and mark the row assigned, cancel the request    *)
Payloads ==
    {[doctor_id |-> d] : d \in DoctorIds}
        \cup {[doctor_id |-> d, status |-> "assigned"] : d \in DoctorIds}
        \cup {[status |-> "cancelled"]}

(* the payloads of the second scenario: those above, and one that rewrites *)
(* a column the handlers never write, the symptoms                         *)
StorePayloads == Payloads \cup {[symptoms |-> <<"g">>]}

(* an authenticated caller's UPDATE of a consultation, admitted by the UPDATE *)
(* policies alone: the client has no handler for it                           *)
updateConsultation(u, c, payload) ==
    /\ profiles[u] # NULL
    /\ consultations' = UpdateConsultations(u, c, payload).rows
    /\ consultations' # consultations
    /\ UNCHANGED <<profiles, doctors, now, call, alert, list, doctorProfile, doctorsList,
                   full_name, fullName, fetches, latest>>

(* the rows tried for a caller's own INSERT (Database.consultations.Insert):  *)
(* the required columns alone, or with a status and a doctor named as well    *)
InsertValues ==
    {[patient_id |-> p, symptoms |-> <<"f">>] : p \in Users}
        \cup {[patient_id |-> p, symptoms |-> <<"f">>,
               status |-> "assigned", doctor_id |-> d] : p \in Users, d \in DoctorIds}

(* an authenticated caller's INSERT of a consultation, admitted by the INSERT *)
(* policy alone                                                               *)
insertConsultation(u, values) ==
    /\ profiles[u] # NULL
    /\ Len(consultations) < MaxConsultations
    /\ ~InsertConsultation(u, values).error
    /\ consultations' = InsertConsultation(u, values).rows
    /\ UNCHANGED <<profiles, doctors, now, call, alert, list, doctorProfile, doctorsList,
                   full_name, fullName, fetches, latest>>

(* an authenticated caller's INSERT of a doctors row with the given id,     *)
(* admitted by the primary key, the reference to profiles and the INSERT     *)
(* policy alone                                                              *)
insertDoctor(u, id) ==
    /\ profiles[u] # NULL
    /\ id \notin DoctorIds
    /\ profiles[id] # NULL
    /\ DoctorsInsertCheck(u, id)
    /\ doctors' = doctors \cup {[id |-> id, is_available |-> FALSE]}
    /\ UNCHANGED <<profiles, consultations, now, call, alert, list, doctorProfile, doctorsList,
                   full_name, fullName, fetches, latest>>

Next ==
    \/ \E s \in SignUps : signUp(s[1], s[2])
    \/ \E u \in Users : isDoctor(u) /\ fetchConsultations(u)
    \/ \E u \in Users, c \in Ids : handleAcceptConsultation(u, c)
    \/ \E u \in Users : handleAcceptConsultationDone(u)
    \/ \E u \in Users, c \in Ids : handleStartConsultation(u, c)
    \/ \E u \in Users : handleStartConsultationDone(u)
    \/ \E u \in Users, c \in Ids : handleCompleteConsultation(u, c)
    \/ \E u \in Users : handleCompleteConsultationDone(u)
    \/ \E u \in Users, s \in SymptomInputs : handleRequestConsultation(u, s)
    \/ \E u \in Users : handleRequestConsultationDone(u)
    \/ \E u \in Users : handleUpdateProfile(u)
    \/ \E u \in Users : handleUpdateProfileSelect(u)
    \/ \E u \in Users : handleUpdateProfileWrite(u)
    \/ \E u \in Users : handleUpdateProfileDone(u)
    \/ \E u \in Users, c \in Ids, p \in Payloads : updateConsultation(u, c, p)

Spec == Init /\ [][Next]_vars

(* the accounts of the second scenario: two patients and one doctor *)
SignUpsStore == {<<"p1", "patient">>, <<"p2", "patient">>, <<"d1", "doctor">>}

(* the store as its policies expose it to two patients and a doctor: the    *)
(* request and profile screens, every session's list, and the callers' own  *)
(* INSERTs and UPDATEs                                                       *)
NextStore ==
    \/ \E s \in SignUpsStore : signUp(s[1], s[2])
    \/ \E u \in Users : fetchConsultations(u)
    \/ \E u \in Users, s \in SymptomInputs : handleRequestConsultation(u, s)
    \/ \E u \in Users : handleRequestConsultationDone(u)
    \/ \E u \in Users : handleUpdateProfile(u)
    \/ \E u \in Users : handleUpdateProfileSelect(u)
    \/ \E u \in Users : handleUpdateProfileWrite(u)
    \/ \E u \in Users : handleUpdateProfileDone(u)
    \/ \E u \in Users, c \in Ids, p \in StorePayloads : updateConsultation(u, c, p)
    \/ \E u \in Users, v \in InsertValues : insertConsultation(u, v)
    \/ \E u \in Users, id \in Users : insertDoctor(u, id)

SpecStore == Init /\ [][NextStore]_vars

(* the accounts of the third scenario: a patient and a doctor *)
SignUpsScreens == {<<"p1", "patient">>, <<"d1", "doctor">>}

(* the profile screen, the doctors list and the two change feeds *)
NextScreens ==
    \/ \E s \in SignUpsScreens : signUp(s[1], s[2])
    \/ \E u \in Users : handleUpdateProfile(u)
    \/ \E u \in Users : handleUpdateProfileSelect(u)
    \/ \E u \in Users : handleUpdateProfileWrite(u)
    \/ \E u \in Users : handleUpdateProfileDone(u)
    \/ \E u \in Users, value \in BOOLEAN : handleToggleAvailability(u, value)
    \/ \E u \in Users : fetchDoctorProfile(u)
    \/ \E u \in Users : fetchDoctors(u)
    \/ \E u \in Users, payload \in DoctorEvents : onDoctorsChanges(u, payload)
    \/ \E u \in Users, s \in SymptomInputs : handleRequestConsultation(u, s)
    \/ \E u \in Users : handleRequestConsultationDone(u)
    \/ \E u \in Users : fetchConsultations(u)
    \/ \E u \in Users, payload \in ConsultationEvents : onConsultationsChanges(u, payload)

SpecScreens == Init /\ [][NextScreens]_vars

(* the profile screen of a patient and of a doctor who is signed in on two  *)
(* devices: the form, the save, and the doctors row the other device's save *)
(* inserts                                                                  *)
NextProfile ==
    \/ \E s \in SignUpsScreens : signUp(s[1], s[2])
    \/ \E u \in Users, name \in Names : setFullName(u, name)
    \/ \E u \in Users, value \in BOOLEAN : handleToggleAvailability(u, value)
    \/ \E u \in Users : fetchDoctorProfile(u)
    \/ \E u \in Users : handleUpdateProfile(u)
    \/ \E u \in Users : handleUpdateProfileSelect(u)
    \/ \E u \in Users : handleUpdateProfileWrite(u)
    \/ \E u \in Users : handleUpdateProfileDone(u)
    \/ \E u \in Users : insertDoctor(u, u)

SpecProfile == Init /\ [][NextProfile]_vars

(* the consultations list of a patient and of a doctor with its queries and *)
(* their answers as separate steps, while the patient requests and cancels  *)
NextFetch ==
    \/ \E s \in SignUpsScreens : signUp(s[1], s[2])
    \/ \E u \in Users : fetchConsultationsQuery(u)
    \/ \E u \in Users : \E data \in fetches[u] : setConsultations(u, data)
    \/ \E u \in Users, s \in SymptomInputs : handleRequestConsultation(u, s)
    \/ \E u \in Users : handleRequestConsultationDone(u)
    \/ \E u \in Users, c \in Ids, p \in Payloads : updateConsultation(u, c, p)

SpecFetch == Init /\ [][NextFetch]_vars
(* ------------------------------ claims -------------------------------- *)
Claimed == {"assigned", "in_progress", "completed"}

HandlerWrites(u, c) ==
    \/ handleAcceptConsultation(u, c)
    \/ handleStartConsultation(u, c)
    \/ handleCompleteConsultation(u, c)

(* two accepts by different doctors (each with a doctors row), both answered *)
(* by the store but not yet handled, both applied while the consultation    *)
(* was pending and unclaimed                                                *)
RivalAccepts(a, b) ==
    /\ a # b
    /\ a \in DoctorIds /\ b \in DoctorIds
    /\ call[a].op = "accept" /\ call[b].op = "accept"
    /\ call[a].id = call[b].id
    /\ call[a].unclaimed /\ call[b].unclaimed

(* C1: of two doctors' concurrent accepts of the same pending, unclaimed    *)
(* consultation exactly one succeeds; the other is shown an error, never a  *)
(* success: when b's response is handled, b is shown Success if and only if *)
(* the rival's accept failed.                                               *)
C1_ExactlyOneAcceptSucceeds ==
    [][\A a, b \in Users :
          (RivalAccepts(a, b) /\ handleAcceptConsultationDone(b)) =>
              alert'[b] = (IF call[a].error THEN "Success" ELSE "Error")]_vars

(* C2: an accept writes no doctor_id but the caller's own, and never replaces *)
(* a doctor_id that is already set by a different one; it touches no other row *)
C2_AcceptKeepsTheClaim ==
    [][\A u \in Users, c \in Ids :
          (handleAcceptConsultation(u, c) /\ c \in DOMAIN consultations) =>
              /\ consultations'[c].doctor_id \in {consultations[c].doctor_id, u}
              /\ consultations[c].doctor_id # NULL =>
                     consultations'[c].doctor_id = consultations[c].doctor_id
              /\ \A o \in DOMAIN consultations \ {c} :
                     consultations'[o] = consultations[o]]_vars

(* C2 witness: two doctors have accepted the same consultation; the accept of *)
(* the one who holds it went through, and the row is assigned to that doctor  *)
C2_Witness ==
    \E a, b \in Users :
        /\ a # b
        /\ call[a].op = "accept" /\ call[b].op = "accept"
        /\ call[a].id = call[b].id
        /\ call[a].id \in DOMAIN consultations
        /\ ~call[a].error
        /\ consultations[call[a].id].doctor_id = a
        /\ consultations[call[a].id].status = "assigned"
        /\ consultations[call[a].id].started_at # NullTime

(* C3: doctor_id is set if and only if the status is assigned, in_progress or *)
(* completed, in every reachable state                                        *)
C3_DoctorIffClaimed ==
    \A c \in DOMAIN consultations :
        consultations[c].doctor_id # NULL <=> consultations[c].status \in Claimed

TimestampsMatch(row) ==
    /\ row.started_at # NullTime <=> row.status \in {"in_progress", "completed"}
    /\ row.completed_at # NullTime <=> row.status = "completed"

(* C4: started_at is set iff the status is in_progress or completed, and    *)
(* completed_at iff it is completed; accept, start and complete keep it so  *)
C4_TimestampsFollowStatus ==
    [][\A u \in Users, c \in Ids :
          (/\ HandlerWrites(u, c)
           /\ c \in DOMAIN consultations
           /\ TimestampsMatch(consultations[c])) =>
              TimestampsMatch(consultations'[c])]_vars

(* the status each handler requires of the row it writes *)
Predecessor(u, c) ==
    IF handleAcceptConsultation(u, c) THEN "pending"
    ELSE IF handleStartConsultation(u, c) THEN "assigned"
    ELSE "in_progress"

(* C5: accept, start and complete move a row along pending -> assigned ->   *)
(* in_progress -> completed only: an operation whose predecessor status is  *)
(* not the row's status leaves the row unchanged                            *)
C5_TransitionsFollowEdges ==
    [][\A u \in Users, c \in Ids :
          (/\ HandlerWrites(u, c)
           /\ c \in DOMAIN consultations
           /\ consultations[c].status # Predecessor(u, c)) =>
              consultations'[c] = consultations[c]]_vars

(* C6: start on a pending consultation, and a second start on one already   *)
(* started, fail with an error and leave status and started_at as they were *)
C6_StartNeedsAssigned ==
    [][\A u \in Users, c \in Ids :
          (/\ handleStartConsultation(u, c)
           /\ c \in DOMAIN consultations
           /\ consultations[c].status \in {"pending", "in_progress"}) =>
              /\ call'[u].error
              /\ consultations'[c].status = consultations[c].status
              /\ consultations'[c].started_at = consultations[c].started_at]_vars

(* C7: completed and cancelled are absorbing: no accept, start or complete  *)
(* changes such a row                                                       *)
C7_TerminalIsAbsorbing ==
    [][\A u \in Users, c \in Ids :
          (/\ HandlerWrites(u, c)
           /\ c \in DOMAIN consultations
           /\ consultations[c].status \in {"completed", "cancelled"}) =>
              consultations'[c] = consultations[c]]_vars

(* C8: what the consultation query of a doctor (role doctor, doctors row  *)
(* saved) returns contains every consultation whose status is pending,    *)
(* whoever the doctor is                                                   *)
C8_DoctorsSeeEveryPending ==
    \A u \in DoctorIds :
        isDoctor(u) =>
            \A c \in DOMAIN consultations :
                consultations[c].status = "pending" =>
                    \E item \in Fetched(u) : item.id = c

(* C9: the lifecycle can be walked by a doctor D who has a doctors row: the *)
(* list D fetches offers Accept on a pending, unclaimed consultation; D's   *)
(* accept makes it assigned to D, D's start then makes it in_progress with  *)
(* started_at set, D's complete then makes it completed with completed_at   *)
C9_LifecycleIsExecutable ==
    [][\A u \in DoctorIds, c \in DOMAIN consultations :
          LET row == consultations[c]
              new == consultations'[c]
          IN  /\ (fetchConsultations(u) /\ isDoctor(u)
                     /\ row.status = "pending" /\ row.doctor_id = NULL) =>
                     \E item \in list'[u] : item.id = c /\ isPending(u, item)
              /\ (handleAcceptConsultation(u, c)
                     /\ row.status = "pending" /\ row.doctor_id = NULL) =>
                     (new.status = "assigned" /\ new.doctor_id = u)
              /\ (handleStartConsultation(u, c)
                     /\ row.status = "assigned" /\ row.doctor_id = u) =>
                     (new.status = "in_progress" /\ new.started_at # NullTime)
              /\ (handleCompleteConsultation(u, c)
                     /\ row.status = "in_progress" /\ row.doctor_id = u) =>
                     (new.status = "completed" /\ new.completed_at # NullTime)]_vars

(* C10: the role alone decides a claim: an accept by a caller whose role is *)
(* doctor takes a pending, unclaimed consultation; a claim by a caller      *)
(* whose role is not doctor changes nothing                                 *)
C10_RoleAloneAuthorizesClaim ==
    [][\A u \in Users, c \in DOMAIN consultations :
          LET row == consultations[c]
              new == consultations'[c]
          IN  /\ (handleAcceptConsultation(u, c) /\ isDoctor(u)
                     /\ row.status = "pending" /\ row.doctor_id = NULL) =>
                     (new.status = "assigned" /\ new.doctor_id = u)
              /\ (~isDoctor(u) /\ row.doctor_id = NULL
                     /\ \E p \in Payloads : updateConsultation(u, c, p)) =>
                     new.doctor_id = NULL]_vars

(* C11: no operation fails silently: an accept, start, complete, request or *)
(* doctor's profile save whose write is not in the store afterwards is      *)
(* answered with an error, and an error is always shown as a failure        *)
C11_NoSilentFailure ==
    [][\A u \in Users :
          /\ \A c \in Ids :
                /\ (/\ handleAcceptConsultation(u, c)
                    /\ c \in DOMAIN consultations
                    /\ ~(/\ consultations'[c].doctor_id = u
                         /\ consultations'[c].status = "assigned")) =>
                       call'[u].error
                /\ (/\ handleStartConsultation(u, c)
                    /\ c \in DOMAIN consultations
                    /\ ~(/\ consultations'[c].status = "in_progress"
                         /\ consultations'[c].started_at = now')) =>
                       call'[u].error
                /\ (/\ handleCompleteConsultation(u, c)
                    /\ c \in DOMAIN consultations
                    /\ ~(/\ consultations'[c].status = "completed"
                         /\ consultations'[c].completed_at = now')) =>
                       call'[u].error
          /\ \A s \in SymptomInputs :
                (/\ handleRequestConsultation(u, s)
                 /\ Len(consultations') = Len(consultations)) =>
                    (call'[u].error \/ alert'[u] = "Error")
          /\ (handleUpdateProfileWrite(u) /\ u \notin DoctorIds') => call'[u].error
          /\ (call[u].phase = "waiting" /\ call'[u].phase = "idle" /\ call[u].error) =>
                alert'[u] = "Error"]_vars

(* C12: a start or complete issued by a doctor on a consultation whose      *)
(* doctor_id is not the doctor's own id (another doctor's, or null) leaves  *)
(* the row unchanged                                                        *)
C12_OnlyOwnConsultations ==
    [][\A u \in Users, c \in Ids :
          (/\ handleStartConsultation(u, c) \/ handleCompleteConsultation(u, c)
           /\ c \in DOMAIN consultations
           /\ consultations[c].doctor_id # u) =>
              consultations'[c] = consultations[c]]_vars

(* C12 witness: a doctor's start is awaited on a consultation assigned to  *)
(* another doctor, and the row is still assigned and not started           *)
C12_Witness ==
    \E u \in Users :
        /\ call[u].op = "start" /\ call[u].phase = "waiting"
        /\ call[u].id \in DOMAIN consultations
        /\ consultations[call[u].id].doctor_id \notin {u, NULL}
        /\ consultations[call[u].id].status = "assigned"
        /\ consultations[call[u].id].started_at = NullTime

(* C14: an update by a patient of its own consultation never changes         *)
(* doctor_id, changes status to nothing but cancelled (the patient's cancel), *)
(* and is admitted only while the row is neither completed nor cancelled      *)
C14_PatientPathIsRestricted ==
    [][\A u \in Users, c \in DOMAIN consultations, p \in Payloads :
          (updateConsultation(u, c, p) /\ consultations[c].patient_id = u) =>
              /\ consultations'[c].doctor_id = consultations[c].doctor_id
              /\ consultations'[c].status \in {consultations[c].status, "cancelled"}
              /\ consultations[c].status \notin {"completed", "cancelled"}]_vars

(* nothing but spaces *)
Blank(s) == \A i \in 1 .. Len(s) : s[i] = " "

(* C15: a request whose symptoms are empty or only spaces shows the caller *)
(* an error and issues no insert: no row is added and no request awaited   *)
C15_EmptySymptomsRejected ==
    [][\A u \in Users, s \in SymptomInputs :
          (handleRequestConsultation(u, s) /\ Blank(s)) =>
              /\ alert'[u] = "Error"
              /\ consultations' = consultations
              /\ call' = call]_vars

(* C15 witness: the patient has been shown the error and no row exists *)
C15_Witness ==
    /\ isPatient("p1")
    /\ alert["p1"] = "Error"
    /\ consultations = <<>>
    /\ call["p1"].phase = "idle"

(* C16: whatever is sent, a consultation just created is pending, has no   *)
(* doctor and no timestamps                                                *)
C16_CreatedPendingUnclaimed ==
    [][Len(consultations') = Len(consultations) + 1 =>
          LET new == consultations'[Len(consultations')]
          IN  /\ new.status = "pending"
              /\ new.doctor_id = NULL
              /\ new.started_at = NullTime
              /\ new.completed_at = NullTime]_vars

C13_PatientsAreIsolated ==
    [][\A u \in Users :
          isPatient(u) =>
              /\ \A item \in list'[u] : consultations'[item.id].patient_id = u
              /\ \A c \in DOMAIN consultations :
                    (/\ consultations[c].patient_id # u
                     /\ \/ \E p \in Payloads : updateConsultation(u, c, p)
                        \/ \E v \in InsertValues : insertConsultation(u, v)
                        \/ \E s \in SymptomInputs : handleRequestConsultation(u, s)) =>
                        consultations'[c] = consultations[c]]_vars

(* C13 witness: two patients are signed in, one owns a consultation and    *)
(* sees it in its list, the other's list is empty                          *)
C13_Witness ==
    \E u, v \in Users :
        /\ u # v /\ isPatient(u) /\ isPatient(v)
        /\ \E item \in list[u] : consultations[item.id].patient_id = u
        /\ \A c \in DOMAIN consultations : consultations[c].patient_id = u
        /\ list[v] = {}

(* C20: every doctors row is the row of a profile whose role is doctor *)
C20_DoctorsRowsAreDoctors ==
    \A d \in DoctorIds : profiles[d] = "doctor"

(* C20 witness: a doctors row exists and a patient has saved its profile *)
C20_Witness ==
    \E u, d \in Users :
        /\ isPatient(u) /\ alert[u] = "Success" /\ consultations = <<>>
        /\ d \in DoctorIds

(* C18: a change event is only a cue to fetch: what a session displays,     *)
(* consultations or doctors, changes to nothing but the result of its own   *)
(* query, also when the change is triggered by an event                     *)
C18_EventsOnlyTriggerFetch ==
    [][\A u \in Users :
          /\ list'[u] # list[u] => list'[u] = Fetched(u)
          /\ doctorsList'[u] # doctorsList[u] => doctorsList'[u] = FetchedDoctors(u)
          /\ \A payload \in ConsultationEvents :
                onConsultationsChanges(u, payload) => list'[u] = Fetched(u)
          /\ \A payload \in DoctorEvents :
                onDoctorsChanges(u, payload) => doctorsList'[u] = FetchedDoctors(u)]_vars

(* C18 witness: a session displays a consultation and a doctor, both as    *)
(* the store has them                                                      *)
C18_Witness ==
    \E u \in Users :
        /\ list[u] # {} /\ list[u] = Fetched(u)
        /\ doctorsList[u] # {} /\ doctorsList[u] = FetchedDoctors(u)

(* C19: the doctors query of any signed-in caller returns every doctors    *)
(* row with the is_available the store holds; a save writes the form's     *)
(* is_available to the caller's row; the switch alone leaves the store as  *)
(* it is                                                                   *)
C19_AvailabilityIsReadBack ==
    [][\A u \in Users :
          /\ profiles[u] # NULL =>
                \A d \in doctors :
                    \E item \in FetchedDoctors(u) :
                        item.id = d.id /\ item.is_available = d.is_available
          /\ fetchDoctors(u) => doctorsList'[u] = FetchedDoctors(u)
          /\ (handleUpdateProfileWrite(u) /\ ~call'[u].error) =>
                \E d \in doctors' :
                    d.id = u /\ d.is_available = doctorProfile[u]
          /\ \A value \in BOOLEAN :
                handleToggleAvailability(u, value) => doctors' = doctors]_vars

(* C19 witness: a doctor saved is_available = false after true: the store  *)
(* holds false, a patient's later read shows false, the doctor's own       *)
(* earlier read still shows true                                           *)
C19_Witness ==
    \E u, d \in Users :
        /\ isPatient(u) /\ isDoctor(d)
        /\ [id |-> d, is_available |-> FALSE] \in doctors
        /\ \E item \in doctorsList[u] : item.id = d /\ ~item.is_available
        /\ \E item \in doctorsList[d] : item.id = d /\ item.is_available

(* C21: a doctor's save has upsert semantics: the write it issues for the   *)
(* doctors row never fails, whatever another session of the same doctor did *)
(* since the save looked the row up, and leaves exactly one row of the      *)
(* doctor                                                                   *)
C21_SaveIsUpsert ==
    [][\A u \in Users :
          (isDoctor(u) /\ handleUpdateProfileWrite(u)) =>
              /\ ~call'[u].error
              /\ Cardinality({d \in doctors' : d.id = u}) = 1]_vars

(* C27: every row a session's doctors list holds carries the doctor's       *)
(* profile, so that renderDoctor can read its full_name, whoever the viewer *)
(* is                                                                       *)
C27_DoctorsCarryProfile ==
    \A u \in Users : \A item \in doctorsList[u] : item.profiles # NULL

(* C28: request, accept, start and complete never cancel: a consultation    *)
(* that is cancelled after one of them was cancelled before it, and every   *)
(* status they write is pending, assigned, in_progress or completed         *)
C28_NoOperationCancels ==
    [][\A u \in Users :
          (\/ \E s \in SymptomInputs : handleRequestConsultation(u, s)
           \/ \E c \in Ids : HandlerWrites(u, c)) =>
              \A c \in DOMAIN consultations' :
                  \/ /\ c \in DOMAIN consultations
                     /\ consultations'[c].status = consultations[c].status
                  \/ consultations'[c].status \in
                        {"pending", "assigned", "in_progress", "completed"}]_vars

(* C28 witness: a doctor's complete has taken effect on a consultation      *)
C28_Witness ==
    \E u \in Users :
        /\ call[u].op = "complete" /\ ~call[u].error
        /\ call[u].id \in DOMAIN consultations
        /\ consultations[call[u].id].status = "completed"
        /\ consultations[call[u].id].doctor_id = u

(* C26: a row of the list, displayed or about to be, offers at most one     *)
(* action and offers it to a doctor only: Accept when the row is pending    *)
(* and unclaimed, Start when it is assigned to the viewer, Complete when it *)
(* is in progress with the viewer; a patient is offered nothing             *)
C26_OneActionForDoctorsOnly ==
    \A u \in Users : \A item \in list[u] \cup Fetched(u) :
        /\ Cardinality(Buttons(u, item)) <= 1
        /\ Buttons(u, item) # {} => profiles[u] = "doctor"
        /\ "Accept Consultation" \in Buttons(u, item) =>
               item.status = "pending" /\ item.doctor_id = NULL
        /\ "Start Consultation" \in Buttons(u, item) =>
               item.status = "assigned" /\ item.doctor_id = u
        /\ "Complete Consultation" \in Buttons(u, item) =>
               item.status = "in_progress" /\ item.doctor_id = u

(* C26 witness: a doctor's list offers Complete on a row while the row's    *)
(* patient is shown the same consultation                                   *)
C26_Witness ==
    \E u, v \in Users :
        /\ \E item \in list[u] : Buttons(u, item) = {"Complete Consultation"}
        /\ isPatient(v) /\ Fetched(v) # {}

(* C23: the patient and the symptoms of a consultation are fixed when it is *)
(* created: no step changes them, so in every reachable state they are the  *)
(* values given at creation                                                 *)
C23_CreationFieldsAreFixed ==
    [][\A c \in DOMAIN consultations :
          /\ consultations'[c].patient_id = consultations[c].patient_id
          /\ consultations'[c].symptoms = consultations[c].symptoms]_vars

(* the consultations assigned to a doctor other than their patient *)
AssignedTo(u) ==
    {c \in DOMAIN consultations :
        /\ consultations[c].doctor_id = u
        /\ consultations[c].patient_id # u}

(* C24 as stated: the doctor update policy lets the assigned doctor set     *)
(* doctor_id back to null: the update is admitted and the row is unclaimed  *)
C24_AssignedDoctorMayUnassign ==
    \A u \in DoctorIds : \A c \in AssignedTo(u) :
        LET res == UpdateConsultations(u, c, [doctor_id |-> NULL])
        IN  ~res.error /\ res.rows[c].doctor_id = NULL

(* C24 amended: the doctor update policy does not let the assigned doctor   *)
(* unassign: the row with doctor_id null fails the policy's WITH CHECK, the *)
(* update is answered with an error and the row stays as it is              *)
C24_UnassignIsRejected ==
    \A u \in DoctorIds : \A c \in AssignedTo(u) :
        LET res == UpdateConsultations(u, c, [doctor_id |-> NULL])
        IN  /\ ~DoctorUpdateCheck(u, ApplyPayload(consultations[c], [doctor_id |-> NULL]))
            /\ res.error
            /\ res.rows = consultations

(* C24 witness: a consultation is assigned to a doctor who can reach it     *)
C24_Witness ==
    \E u \in DoctorIds : \E c \in AssignedTo(u) :
        /\ consultations[c].status = "assigned"
        /\ DoctorUpdateUsing(u, consultations[c])
        /\ SelectUsing(u, consultations[c])

(* C22: the role of a profile never changes once it is set, and a save      *)
(* writes no profile but the caller's own, and of that the full_name only   *)
C22_RoleIsSetOnce ==
    [][\A u \in Users :
          /\ profiles[u] # NULL => profiles'[u] = profiles[u]
          /\ handleUpdateProfile(u) =>
                /\ full_name'[u] = fullName[u]
                /\ \A v \in Users \ {u} : full_name'[v] = full_name[v]]_vars

(* C22 witness: a doctor has saved a new name and is still a doctor, next   *)
(* to a patient's profile                                                   *)
C22_Witness ==
    \E u, v \in Users :
        /\ isDoctor(u) /\ alert[u] = "Success"
        /\ full_name[u] = "b"
        /\ isPatient(v) /\ full_name[v] = SignUpName

(* C29: a save that reports an error has changed nothing: when the error is *)
(* shown the caller's profile is as it was when the save began              *)
C29_SaveIsAllOrNothing ==
    [][\A u \in Users :
          (handleUpdateProfileDone(u) /\ call[u].error) =>
              /\ full_name[u] = call[u].before
              /\ call'[u] = Idle]_vars

(* C25: once the store has stopped changing a session comes to display the  *)
(* result of its query on the store as it is: when all its queries have     *)
(* been answered and the most recent of them saw the store as it is now,    *)
(* its list is that result, in whatever order the answers arrived           *)
C25_ListConverges ==
    \A u \in Users :
        (fetches[u] = {} /\ latest[u] = Fetched(u)) => list[u] = Fetched(u)
====
